---- MODULE Spec2Model ----
(***************************************************************************)
(* Deployment / versioning state machine of autoapporch-backend:           *)
(* src/src/services/deploymentService.js (deployApp, updateApp,            *)
(* rollbackApp, suspendApp, reactivateApp and the archive / hosting        *)
(* helpers they call), the generation paths that create App and AppVersion *)
(* rows, and the deploy routes that call the orchestrator.                 *)
(*                                                                         *)
(* Every orchestrator call is a process that advances one awaited I/O      *)
(* step at a time.  SQL NULL is written 0 for handles, "NULL" for times    *)
(* and NullLabel for version labels.  updatesDone counts, per app, the     *)
(* updateApp calls that have succeeded (a history of the run, not a        *)
(* column).                                                                *)
(***************************************************************************)
EXTENDS Integers, Sequences, FiniteSets, TLC

VARIABLES apps, app_versions, logs, repos, deployments, proc,
          uniqueVersions, updatesDone, hook, other, subscriptions, users, requests,
          jobs

\* the state of the payment side: the webhook delivery whose handler runs, a
\* second delivery whose handler waits for its turn, the subscriptions table,
\* the users table, and the number of requests the subscribed user has made
billing == <<hook, other, subscriptions, users, requests>>

\* the orchestrator, its routes and the payment side: all that the job
\* processor leaves alone
platform == <<apps, app_versions, logs, repos, deployments, proc,
              uniqueVersions, updatesDone, billing>>

vars == <<apps, app_versions, logs, repos, deployments, proc,
          uniqueVersions, updatesDone, hook, other, subscriptions, users, requests,
          jobs>>

\* ---------------------------------------------------------------- bounds
\* deployments ever created on the hosting provider, archive repositories
\* ever created, rows of app_versions, orchestrator calls in flight
MaxDeployments == 3
MaxRepos == 1
MaxVersions == 2
MaxProcs == 2
MaxRequests == 2
MaxRuns == 5

\* the model follows the life of one app; ids are given out in order of creation
AppIds == {1}
Procs == 1..MaxProcs
Users == {"u1", "u2"}

\* the users that generate apps; the other users only call the orchestrator
Owners == {"u1"}

\* ------------------------------------------------------- version labels
\* A label is the text of apps.current_version: an optional 'v' followed by
\* dot-separated components.  NaN stands for the text "NaN".
NaN == -1

Label(hasV, parts) == [v |-> hasV, parts |-> parts]

NullLabel == Label(FALSE, <<>>)

\* the literal 1 that deployApp writes into current_version
DeployedLabel == Label(FALSE, <<1>>)

\* app.current_version || 'v1.0.0'
DefaultLabel == Label(TRUE, <<1, 0, 0>>)

\* targetVersion values sent to POST /:id/rollback: the version deployApp
\* archived, and labels of the form updateApp writes
TargetVersions == {DeployedLabel, Label(TRUE, <<1, 0, 0>>), Label(TRUE, <<1, 2, 0>>)}

\* parseInt(x) + 1
IncMinor(x) == IF x = NaN THEN NaN ELSE x + 1

\* currentVersion.replace('v','').split('.') with versionParts[1] replaced by
\* parseInt(versionParts[1]) + 1; index 1 of a one-element array is undefined
VersionParts(label) ==
    LET cur == IF label = NullLabel THEN DefaultLabel ELSE label
        parts == cur.parts
    IN  IF Len(parts) >= 2
        THEN [parts EXCEPT ![2] = IncMinor(parts[2])]
        ELSE parts \o <<NaN>>

\* `v${versionParts.join('.')}`
NewVersion(label) == Label(TRUE, VersionParts(label))

\* parseInt(versionParts[1]), the integer stored in app_versions.version
VersionInt(label) == VersionParts(label)[2]

\* ------------------------------------------------------------ code trees
File(path, content) == [path |-> path, content |-> content]

Code(front, back) == [frontend |-> front, backend |-> back]

NoCode == Code({}, {})

\* createProjectStructure: a frontend-only project
GenCode == Code({File(<<"index.html">>, "gen")}, {})

\* code bodies sent to POST /:id/update
UpdateCodes == {Code({File(<<"index.html">>, "upd")}, {File(<<"server.js">>, "upd")})}

Reasons == {"Subscription canceled"}

\* JSON.stringify(code) on insert, JSON.parse(code) on read
Stringify(code) == [json |-> code]

Parse(text) == text.json

\* Buffer.from(contentStr, 'utf8').toString('base64')
Base64(content) == <<"base64", content>>

\* prepareFilesForBackup: tier-prefixed paths, base64 content, plus the
\* metadata file when appId and appName are given
PrepareFilesForBackup(code, withMeta) ==
    {File(<<"frontend">> \o f.path, Base64(f.content)) : f \in code.frontend}
    \cup {File(<<"backend">> \o f.path, Base64(f.content)) : f \in code.backend}
    \cup (IF withMeta
          THEN {File(<<"APP_METADATA.json">>, Base64("metadata"))}
          ELSE {})

\* getFilesFromRepo(repoName, version): returns no file, whatever the
\* repository and the version
GetFilesFromRepo(repoName, version) == {}

\* getVersionCode: always succeeds; the files partitioned by path prefix
GetVersionCode(repoName, version) ==
    LET files == GetFilesFromRepo(repoName, version)
    IN  Code({f \in files : f.path[1] = "frontend"},
             {f \in files : f.path[1] = "backend"})

\* ------------------------------------------------------------- database
\* the apps row written by saveApp / the generation error path; the
\* deployment columns take their defaults
NewRow(u) ==
    [user_id |-> u, deployment_status |-> "none", deployed |-> FALSE,
     deploy_url |-> 0, github_repo_url |-> 0, github_repo_name |-> 0,
     vercel_deployment_id |-> 0, vercel_project_name |-> 0,
     current_version |-> NullLabel, suspended_at |-> "NULL"]

NoRow == NewRow("")

\* WHERE a.id = $1 AND a.user_id = $2
Found(a, u) == a \in DOMAIN apps /\ apps[a].user_id = u

VersionsOf(rows, a) == SelectSeq(rows, LAMBDA r : r.app_id = a)

VersionNumbers(rows, a) == {rows[i].version : i \in {j \in DOMAIN rows : rows[j].app_id = a}}

\* ORDER BY av.version DESC LIMIT 1: the rows a latest-version read can return
LatestRows_oldest(a) ==
    {app_versions[i] : i \in {j \in DOMAIN app_versions :
        /\ app_versions[j].app_id = a
        /\ \A m \in DOMAIN app_versions :
              app_versions[m].app_id = a => app_versions[m].version >= app_versions[j].version}}

LatestRows(a) ==
    {app_versions[i] : i \in {j \in DOMAIN app_versions :
        /\ app_versions[j].app_id = a
        /\ \A m \in DOMAIN app_versions :
              app_versions[m].app_id = a => app_versions[m].version <= app_versions[j].version}}

\* UPDATE apps SET deployment_status = s WHERE id = a (no row: no effect)
SetStatus_clearUrl(a, s) ==
    IF a \in DOMAIN apps
    THEN [apps EXCEPT ![a].deployment_status = s, ![a].deploy_url = 0,
                      ![a].vercel_deployment_id = 0]
    ELSE apps

SetStatus(a, s) ==
    IF a \in DOMAIN apps
    THEN [apps EXCEPT ![a].deployment_status = s]
    ELSE apps

\* INSERT INTO logs (user_id, app_id, log_type, message, metadata)
LogEntry(u, a, type, message, version, detail) ==
    [user_id |-> u, app_id |-> a, log_type |-> type, message |-> message,
     version |-> version, detail |-> detail]

NoLog == LogEntry("", 0, "", "", NullLabel, "")

\* the logs table is only ever appended to and never read back: it is kept as
\* the row inserted last, and each call counts the rows it inserted
AddLog(entry) == entry

\* ------------------------------------------------------------ processes
NoRet == [success |-> FALSE, error |-> "", version |-> NullLabel, deployUrl |-> 0,
          deploymentId |-> 0, backupUrl |-> 0]

\* what one deployDirectToVercel call did: whether the deployment was created,
\* the status polls made, the poll that first answered ERROR or CANCELED (0:
\* none), whether a poll answered READY, whether an error left the polling
NoWait == [created |-> FALSE, polls |-> 0, terminalAt |-> 0, ready |-> FALSE,
           raised |-> FALSE]

NoPre == [apps |-> <<>>, versions |-> <<>>, deployments |-> <<>>]

IdleProc ==
    [pc |-> "idle", op |-> "none", appId |-> 0, userId |-> "",
     target |-> NullLabel, newCode |-> NoCode, reason |-> "",
     app |-> NoRow, code |-> NoCode, backup |-> "none", repo |-> 0,
     deploy |-> 0, published |-> FALSE, teardown |-> "none",
     error |-> "", logged |-> 0, ret |-> NoRet, pre |-> NoPre, wait |-> NoWait]

InFlight == {q \in Procs : proc[q].pc # "idle"}

\* a call is taken by the lowest idle process, while fewer than k calls are
\* in flight
CanStart(p, k) ==
    /\ proc[p].pc = "idle"
    /\ \A q \in Procs : q < p => proc[q].pc # "idle"
    /\ Cardinality(InFlight) < k

\* the bounds of the model: a call that can create a deployment, a repository
\* or a version row starts only while one more fits, every call in flight
\* counted as one
RoomFor(rows, max) == Len(rows) + Cardinality(InFlight) < max

Begin(op, a, u) ==
    [IdleProc EXCEPT !.op = op, !.appId = a, !.userId = u,
                     !.pre = [apps |-> apps, versions |-> app_versions,
                              deployments |-> deployments]]

\* ------------------------------------------------------ background jobs
\* const MAX_RETRIES = 3
MAX_RETRIES == 3

\* one job id. status and attempts are its row of the jobs table ("none":
\* not added yet) and due says scheduled_for has passed; queue holds the job
\* objects of jobQueue and timers those a setTimeout will push, each object
\* kept as its own attempts counter; pc is the position of processQueue.
\* runs, successes and late count the handler executions, those that
\* succeeded, and those started on a completed or failed job
NoJobs ==
    [status |-> "none", attempts |-> 0, due |-> FALSE, queue |-> <<>>,
     timers |-> <<>>, pc |-> "idle", runs |-> 0, successes |-> 0, late |-> 0]

\* ------------------------------------------------------ payment events
\* the events processWebhookEvent dispatches to the handlers that touch apps
SubscriptionDeleted == "customer.subscription.deleted"
PaymentSucceeded == "invoice.payment_succeeded"
PaymentFailed == "invoice.payment_failed"
EventTypes == {SubscriptionDeleted, PaymentSucceeded, PaymentFailed}

\* metadata without a userId
NoUser == ""

\* no delivery has arrived yet. Of a delivery: the position of its handling,
\* the event, whether the answer was sent and processWebhookEvent entered,
\* the apps selected, still to call, called, and those whose call failed or
\* left its deployment up, the rows inserted into logs, the tables at the SELECT
IdleHook ==
    [pc |-> "idle", type |-> "", userId |-> NoUser, valid |-> FALSE,
     subscription |-> NoUser, acked |-> FALSE, processed |-> FALSE,
     batch |-> {}, selected |-> {},
     called |-> {}, failed |-> {}, proc |-> 0, rows |-> <<>>, pre |-> NoPre,
     start |-> <<>>]

Init ==
    /\ hook = IdleHook
    /\ other = IdleHook
    /\ subscriptions = [u \in Owners |-> "active"]
    /\ users = [u \in Owners |-> "basic"]
    /\ requests = 0
    /\ jobs = NoJobs
    /\ apps = <<>>
    /\ app_versions = <<>>
    /\ logs = NoLog
    /\ repos = <<>>
    /\ deployments = <<>>
    /\ proc = [p \in Procs |-> IdleProc]
    /\ uniqueVersions \in BOOLEAN
    /\ updatesDone = <<>>

\* ----------------------------------------------------------- generation
\* AppGenerator.saveApp: the app row and its version-1 row in one transaction
SaveAppOf(u, ids) ==
    /\ Len(apps) < Cardinality(ids)
    /\ apps' = Append(apps, NewRow(u))
    /\ app_versions' = Append(app_versions,
          [app_id |-> Len(apps) + 1, version |-> 1, code |-> Stringify(GenCode)])
    /\ updatesDone' = Append(updatesDone, 0)
    /\ UNCHANGED <<logs, repos, deployments, proc, uniqueVersions, billing, jobs>>

SaveApp(u) == SaveAppOf(u, AppIds)

\* POST /api/apps/generate, error path: an app row without any version row
SaveErrorApp(u) ==
    /\ Len(apps) < Cardinality(AppIds)
    /\ apps' = Append(apps, NewRow(u))
    /\ updatesDone' = Append(updatesDone, 0)
    /\ UNCHANGED <<app_versions, logs, repos, deployments, proc, uniqueVersions, billing, jobs>>

\* ------------------------------------------------- archive and hosting
\* createGitHubBackup(appId, appName, code, 1): a new private repository
\* holding the prepared files, committed as version 1
NewRepo(code) ==
    [files |-> PrepareFilesForBackup(code, TRUE),
     snapshots |-> {[version |-> DeployedLabel, files |-> PrepareFilesForBackup(code, TRUE)]},
     tags |-> {}]

\* createOrUpdateFileContents per prepared file: a written path replaces the
\* stored file of the same path
WriteFiles(stored, written) ==
    {f \in stored : \A g \in written : g.path # f.path} \cup written

\* updateGitHubBackup(repoName, code, version): overwrite the files, then tag
UpdatedRepo(repo, code, version) ==
    [files |-> WriteFiles(repo.files, PrepareFilesForBackup(code, FALSE)),
     snapshots |-> repo.snapshots \cup
                   {[version |-> version, files |-> PrepareFilesForBackup(code, FALSE)]},
     tags |-> repo.tags \cup {version}]

\* deployDirectToVercel: the deployment created by POST /v13/deployments.  The
\* hosting provider is kept as the list of deployments ever created and whether
\* each is still live; the code handed over stays in the caller's `code`
NewDeployment(a) == [app_id |-> a, live |-> TRUE]

\* waitForDeployment(deploymentId, deploymentUrl, maxAttempts = 24)
MaxAttempts == 24

\* what one status poll answers: a readyState (QUEUED, BUILDING, READY, ERROR,
\* CANCELED), or FetchFailed when the request or its JSON body fails
FetchFailed == "fetch failed"

\* a status source gives the answer of each poll: `lead` polls answer
\* BUILDING, the next one answers `first`, every later one `rest`
StatusSource(lead, first, rest) ==
    [i \in 1..MaxAttempts |->
        IF i <= lead THEN "BUILDING" ELSE IF i = lead + 1 THEN first ELSE rest]

\* the hosting provider's behaviours: ready at the first poll, a build that
\* ends in ERROR or CANCELED, a build that never ends, a status endpoint that
\* never answers
StatusSources ==
    {StatusSource(0, "READY", "READY"),
     StatusSource(0, "ERROR", "ERROR"), StatusSource(0, "CANCELED", "CANCELED"),
     StatusSource(0, "QUEUED", "BUILDING"), StatusSource(0, FetchFailed, FetchFailed)}

\* the try/catch inside the polling loop: an error thrown by an iteration
\* (the failed request, the Error thrown for ERROR / CANCELED) is caught there
Caught_never(error) == FALSE

Caught(error) == TRUE

\* waitForDeployment from the state (attempts, w) of its loop
RECURSIVE WaitForDeployment(_, _, _)
WaitForDeployment(source, attempts, w) ==
    IF attempts < MaxAttempts
    THEN LET status == source[w.polls + 1]
             polled == [w EXCEPT !.polls = @ + 1]
         IN  IF status = FetchFailed
             THEN IF Caught(status)
                  THEN WaitForDeployment(source, attempts + 1, polled)
                  ELSE [polled EXCEPT !.raised = TRUE]
             ELSE IF status = "READY"
             THEN [polled EXCEPT !.ready = TRUE]
             ELSE IF status \in {"ERROR", "CANCELED"}
             THEN LET seen == [polled EXCEPT !.terminalAt =
                                   IF @ = 0 THEN polled.polls ELSE @]
                  IN  IF Caught(status)
                      THEN WaitForDeployment(source, attempts + 1, seen)
                      ELSE [seen EXCEPT !.raised = TRUE]
             ELSE WaitForDeployment(source, attempts + 1, polled)
    ELSE w

\* deployDirectToVercel: POST /v13/deployments, then waitForDeployment; its
\* own catch turns every error into {success: false}
DeployDirectToVercel(postOk, source) ==
    IF postOk
    THEN WaitForDeployment(source, 0, [NoWait EXCEPT !.created = TRUE])
    ELSE NoWait

DeploySuccess(w) == w.created /\ ~w.raised

\* what a deployDirectToVercel call can do, over the POST answers and the
\* status sources
DeployResults ==
    {DeployDirectToVercel(postOk, source) : postOk \in BOOLEAN, source \in StatusSources}

\* deleteVercelDeployment: DELETE answers ok only for a deployment that
\* still exists and when the request goes through; every other answer
\* (404 included) becomes {success: false}
DeleteResult(d, netOk) ==
    IF ~netOk THEN "error"
    ELSE IF deployments[d].live THEN "ok" ELSE "gone"

\* if (!backup.success) throw ...: the step after the archive step
AfterBackup_ignore(ok, next) == next

AfterBackup_return(ok, next) == IF ok THEN next ELSE "done"

AfterBackup(ok, next) == IF ok THEN next ELSE "catch"

\* ------------------------------------------------------------ deployApp
\* call + SELECT apps JOIN app_versions ... ORDER BY av.version DESC LIMIT 1
DeployCalls(a, u) ==
    IF Found(a, u) /\ LatestRows(a) # {}
    THEN {[Begin("deploy", a, u) EXCEPT !.pc = "d_deploying",
              !.app = apps[a], !.code = Parse(r.code)] : r \in LatestRows(a)}
    ELSE {[Begin("deploy", a, u) EXCEPT !.pc = "catch", !.error = "App not found"]}

StartDeploy(p, k) ==
    /\ CanStart(p, k)
    /\ RoomFor(deployments, MaxDeployments)
    /\ RoomFor(repos, MaxRepos)
    /\ \E a \in AppIds, u \in Users :
         \E call \in DeployCalls(a, u) : proc' = [proc EXCEPT ![p] = call]
    /\ UNCHANGED <<apps, app_versions, logs, repos, deployments, uniqueVersions, billing, updatesDone, jobs>>

\* UPDATE apps SET deployment_status = 'deploying'
DeployMark(p) ==
    /\ proc[p].pc = "d_deploying"
    /\ apps' = SetStatus(proc[p].appId, "deploying")
    /\ proc' = [proc EXCEPT ![p].pc = "d_backup"]
    /\ UNCHANGED <<app_versions, logs, repos, deployments, uniqueVersions, billing, updatesDone, jobs>>

\* PASO 1/2: createGitHubBackup
DeployBackup(p) ==
    /\ proc[p].pc = "d_backup"
    /\ \E ok \in BOOLEAN :
         /\ repos' = IF ok THEN Append(repos, NewRepo(proc[p].code)) ELSE repos
         /\ proc' = [proc EXCEPT ![p] =
              [@ EXCEPT !.pc = AfterBackup(ok, "d_publish"),
                        !.backup = IF ok THEN "ok" ELSE "failed",
                        !.repo = IF ok THEN Len(repos) + 1 ELSE 0,
                        !.error = IF ok THEN "" ELSE "GitHub backup failed"]]
    /\ UNCHANGED <<apps, app_versions, logs, deployments, uniqueVersions, billing, updatesDone, jobs>>

\* deployDirectToVercel as called by every operation: on success the new
\* deployment is recorded and the process goes to `next`, on failure to `fail`
Publish(p, code, next, fail) ==
    \E w \in DeployResults :
       LET ok == DeploySuccess(w)
       IN
       /\ deployments' = IF w.created
                         THEN Append(deployments, NewDeployment(proc[p].appId))
                         ELSE deployments
       /\ proc' = [proc EXCEPT ![p] =
            [@ EXCEPT !.pc = IF ok THEN next ELSE fail,
                      !.published = TRUE,
                      !.code = code,
                      !.wait = w,
                      !.deploy = IF ok THEN Len(deployments) + 1 ELSE 0,
                      !.error = IF ok THEN "" ELSE "Vercel deployment failed",
                      !.ret = IF ok THEN @
                              ELSE [NoRet EXCEPT !.error = "Vercel deployment failed"]]]

\* PASO 2/2: deployDirectToVercel
DeployPublish(p) ==
    /\ proc[p].pc = "d_publish"
    /\ Publish(p, proc[p].code, "d_commit", "catch")
    /\ UNCHANGED <<apps, app_versions, logs, repos, uniqueVersions, billing, updatesDone, jobs>>

\* the row deployApp writes on success
DeployedRow_noVersion(row, d, r) ==
    [row EXCEPT !.deployed = TRUE, !.deploy_url = d, !.deployment_status = "deployed",
                !.github_repo_url = r, !.vercel_deployment_id = d,
                !.vercel_project_name = d, !.github_repo_name = r]

DeployedRow(row, d, r) ==
    [row EXCEPT !.deployed = TRUE, !.deploy_url = d, !.deployment_status = "deployed",
                !.github_repo_url = r, !.vercel_deployment_id = d,
                !.vercel_project_name = d, !.github_repo_name = r,
                !.current_version = DeployedLabel]

\* UPDATE apps SET deployed = TRUE, ...; INSERT INTO logs; return
DeployCommit(p) ==
    /\ proc[p].pc = "d_commit"
    /\ LET a == proc[p].appId
           d == proc[p].deploy
           r == proc[p].repo
       IN  /\ apps' = IF a \in DOMAIN apps
                      THEN [apps EXCEPT ![a] = DeployedRow(@, d, r)]
                      ELSE apps
           /\ logs' = AddLog(LogEntry(proc[p].userId, a, "success",
                                      "App desplegada - v1.0.0", DefaultLabel, ""))
           /\ proc' = [proc EXCEPT ![p] =
                [@ EXCEPT !.pc = "done", !.logged = @ + 1,
                          !.ret = [NoRet EXCEPT !.success = TRUE, !.backupUrl = r,
                                      !.deployUrl = d, !.deploymentId = d,
                                      !.version = DefaultLabel]]]
    /\ UNCHANGED <<app_versions, repos, deployments, uniqueVersions, billing, updatesDone, jobs>>

\* catch of deployApp, updateApp and rollbackApp:
\* UPDATE apps SET deployment_status = 'failed' WHERE id = $1; INSERT INTO logs;
\* return { success: false, error }
ErrorMessage(op) ==
    IF op = "deploy" THEN "Error en deploy"
    ELSE IF op = "update" THEN "Error en actualizacion"
    ELSE "Error en rollback"

\* the catch writes apps and logs only: a version row inserted by the failed
\* call is not taken back
KeptVersions_undo(p) == proc[p].pre.versions

KeptVersions(p) == app_versions

Catch(p) ==
    /\ proc[p].pc = "catch"
    /\ apps' = SetStatus(proc[p].appId, "failed")
    /\ app_versions' = KeptVersions(p)
    /\ logs' = AddLog(LogEntry(proc[p].userId, proc[p].appId, "error",
                               ErrorMessage(proc[p].op), NullLabel, proc[p].error))
    /\ proc' = [proc EXCEPT ![p] =
         [@ EXCEPT !.pc = "done", !.logged = @ + 1, !.ret = [NoRet EXCEPT !.error = proc[p].error]]]
    /\ UNCHANGED <<repos, deployments, uniqueVersions, billing, updatesDone, jobs>>

\* the route handler answers the request; the call is over
Respond(p) ==
    /\ proc[p].pc = "done"
    /\ hook.proc # p
    /\ other.proc # p
    /\ proc' = [proc EXCEPT ![p] = IdleProc]
    /\ UNCHANGED <<apps, app_versions, logs, repos, deployments, uniqueVersions, billing, updatesDone, jobs>>

\* ------------------------------------------------------------ updateApp
\* call + SELECT * FROM apps WHERE id = $1 AND user_id = $2
UpdateCall(a, u, c) ==
    IF Found(a, u)
    THEN [Begin("update", a, u) EXCEPT !.pc = "u_updating", !.app = apps[a],
                                       !.newCode = c]
    ELSE [Begin("update", a, u) EXCEPT !.pc = "catch", !.newCode = c,
                                       !.error = "App not found"]

StartUpdate(p, k) ==
    /\ CanStart(p, k)
    /\ RoomFor(deployments, MaxDeployments)
    /\ RoomFor(app_versions, MaxVersions)
    /\ \E a \in AppIds, u \in Users, c \in UpdateCodes :
         proc' = [proc EXCEPT ![p] = UpdateCall(a, u, c)]
    /\ UNCHANGED <<apps, app_versions, logs, repos, deployments, uniqueVersions, billing, updatesDone, jobs>>

\* UPDATE apps SET deployment_status = 'updating'
UpdateMark(p) ==
    /\ proc[p].pc = "u_updating"
    /\ apps' = SetStatus(proc[p].appId, "updating")
    /\ proc' = [proc EXCEPT ![p].pc = "u_backup"]
    /\ UNCHANGED <<app_versions, logs, repos, deployments, uniqueVersions, billing, updatesDone, jobs>>

\* PASO 1/3: updateGitHubBackup(app.github_repo_name, newCode, newVersion);
\* repos.get of a repository that was never created fails
UpdateBackup(p) ==
    /\ proc[p].pc = "u_backup"
    /\ \E net \in BOOLEAN :
         LET r == proc[p].app.github_repo_name
             ok == net /\ r \in DOMAIN repos
         IN  /\ repos' = IF ok
                         THEN [repos EXCEPT ![r] = UpdatedRepo(@, proc[p].newCode,
                                              NewVersion(proc[p].app.current_version))]
                         ELSE repos
             /\ proc' = [proc EXCEPT ![p] =
                  [@ EXCEPT !.pc = AfterBackup(ok, "u_insert"),
                            !.backup = IF ok THEN "ok" ELSE "failed",
                            !.repo = IF ok THEN r ELSE 0,
                            !.error = IF ok THEN "" ELSE "GitHub update failed"]]
    /\ UNCHANGED <<apps, app_versions, logs, deployments, uniqueVersions, billing, updatesDone, jobs>>

\* the INSERT is rejected for a version that is not an integer, and for a
\* repeated (app_id, version) when the table has that unique key
InsertRejected(a, version) ==
    \/ version = NaN
    \/ uniqueVersions /\ version \in VersionNumbers(app_versions, a)

\* the row updateApp inserts
NewVersionRow(a, label, code) ==
    [app_id |-> a, version |-> VersionInt(label), code |-> Stringify(code)]

\* PASO 2/3: INSERT INTO app_versions
UpdateInsert(p) ==
    /\ proc[p].pc = "u_insert"
    /\ LET a == proc[p].appId
           label == proc[p].app.current_version
       IN  IF InsertRejected(a, VersionInt(label))
           THEN /\ proc' = [proc EXCEPT ![p] =
                     [@ EXCEPT !.pc = "catch", !.error = "insert into app_versions failed"]]
                /\ UNCHANGED app_versions
           ELSE /\ app_versions' = Append(app_versions,
                                          NewVersionRow(a, label, proc[p].newCode))
                /\ proc' = [proc EXCEPT ![p].pc = "u_publish"]
    /\ UNCHANGED <<apps, logs, repos, deployments, uniqueVersions, billing, updatesDone, jobs>>

\* PASO 3/3: deployDirectToVercel
UpdatePublish(p) ==
    /\ proc[p].pc = "u_publish"
    /\ Publish(p, proc[p].newCode, "u_commit", "catch")
    /\ UNCHANGED <<apps, app_versions, logs, repos, uniqueVersions, billing, updatesDone, jobs>>

\* the row updateApp and rollbackApp write on success
PublishedRow_keepVersion(row, d, version) ==
    [row EXCEPT !.deploy_url = d, !.vercel_deployment_id = d,
                !.deployment_status = "deployed"]

PublishedRow_keepStatus(row, d, version) ==
    [row EXCEPT !.deploy_url = d, !.vercel_deployment_id = d,
                !.current_version = version]

PublishedRow(row, d, version) ==
    [row EXCEPT !.deploy_url = d, !.vercel_deployment_id = d,
                !.current_version = version, !.deployment_status = "deployed"]

\* UPDATE apps SET deploy_url, vercel_deployment_id, current_version, ...;
\* INSERT INTO logs; return
UpdateCommit(p) ==
    /\ proc[p].pc = "u_commit"
    /\ LET a == proc[p].appId
           d == proc[p].deploy
           newVersion == NewVersion(proc[p].app.current_version)
       IN  /\ apps' = IF a \in DOMAIN apps
                      THEN [apps EXCEPT ![a] = PublishedRow(@, d, newVersion)]
                      ELSE apps
           /\ logs' = AddLog(LogEntry(proc[p].userId, a, "success",
                                      "App actualizada a", newVersion, ""))
           /\ proc' = [proc EXCEPT ![p] =
                [@ EXCEPT !.pc = "done", !.logged = @ + 1,
                          !.ret = [NoRet EXCEPT !.success = TRUE, !.version = newVersion,
                                      !.deployUrl = d, !.deploymentId = d]]]
    /\ updatesDone' = IF proc[p].appId \in DOMAIN updatesDone
                      THEN [updatesDone EXCEPT ![proc[p].appId] = @ + 1]
                      ELSE updatesDone
    /\ UNCHANGED <<app_versions, repos, deployments, uniqueVersions, billing, jobs>>

\* ---------------------------------------------------------- rollbackApp
\* call + SELECT * FROM apps WHERE id = $1 AND user_id = $2
RollbackCall(a, u, t) ==
    IF Found(a, u)
    THEN [Begin("rollback", a, u) EXCEPT !.pc = "r_rolling", !.app = apps[a],
                                         !.target = t]
    ELSE [Begin("rollback", a, u) EXCEPT !.pc = "catch", !.target = t,
                                         !.error = "App not found"]

StartRollback(p, k) ==
    /\ CanStart(p, k)
    /\ RoomFor(deployments, MaxDeployments)
    /\ \E a \in AppIds, u \in Users, t \in TargetVersions :
         proc' = [proc EXCEPT ![p] = RollbackCall(a, u, t)]
    /\ UNCHANGED <<apps, app_versions, logs, repos, deployments, uniqueVersions, billing, updatesDone, jobs>>

\* UPDATE apps SET deployment_status = 'rolling_back'
RollbackMark(p) ==
    /\ proc[p].pc = "r_rolling"
    /\ apps' = SetStatus(proc[p].appId, "rolling_back")
    /\ proc' = [proc EXCEPT ![p].pc = "r_publish"]
    /\ UNCHANGED <<app_versions, logs, repos, deployments, uniqueVersions, billing, updatesDone, jobs>>

\* PASO 1/2 and 2/2: getVersionCode (no I/O), then deployDirectToVercel
RollbackPublish(p) ==
    /\ proc[p].pc = "r_publish"
    /\ Publish(p, GetVersionCode(proc[p].app.github_repo_name, proc[p].target),
               "r_commit", "catch")
    /\ UNCHANGED <<apps, app_versions, logs, repos, uniqueVersions, billing, updatesDone, jobs>>

RollbackCommit(p) ==
    /\ proc[p].pc = "r_commit"
    /\ LET a == proc[p].appId
           d == proc[p].deploy
       IN  /\ apps' = IF a \in DOMAIN apps
                      THEN [apps EXCEPT ![a] = PublishedRow(@, d, proc[p].target)]
                      ELSE apps
           /\ logs' = AddLog(LogEntry(proc[p].userId, a, "success",
                                      "Rollback a", proc[p].target, ""))
           /\ proc' = [proc EXCEPT ![p] =
                [@ EXCEPT !.pc = "done", !.logged = @ + 1,
                          !.ret = [NoRet EXCEPT !.success = TRUE, !.version = proc[p].target,
                                      !.deployUrl = d]]]
    /\ UNCHANGED <<app_versions, repos, deployments, uniqueVersions, billing, updatesDone, jobs>>

\* ----------------------------------------------------------- suspendApp
\* if (app.vercel_deployment_id): whether the teardown is attempted
NeedsTeardown(row) == row.vercel_deployment_id # 0

\* call + SELECT; the catch returns without writing anything
SuspendCall(a, u, reason) ==
    IF Found(a, u)
    THEN [Begin("suspend", a, u) EXCEPT
             !.pc = IF NeedsTeardown(apps[a]) THEN "s_teardown" ELSE "s_commit",
             !.app = apps[a], !.reason = reason]
    ELSE [Begin("suspend", a, u) EXCEPT !.pc = "done", !.reason = reason,
             !.error = "App not found",
             !.ret = [NoRet EXCEPT !.error = "App not found"]]

StartSuspend(p, k) ==
    /\ CanStart(p, k)
    /\ \E a \in AppIds, u \in Users, reason \in Reasons :
         proc' = [proc EXCEPT ![p] = SuspendCall(a, u, reason)]
    /\ UNCHANGED <<apps, app_versions, logs, repos, deployments, uniqueVersions, billing, updatesDone, jobs>>

\* await deleteVercelDeployment(app.vercel_deployment_id); the result is dropped
SuspendTeardown(p) ==
    /\ proc[p].pc = "s_teardown"
    /\ \E netOk \in BOOLEAN :
         LET d == proc[p].app.vercel_deployment_id
             res == DeleteResult(d, netOk)
         IN  /\ deployments' = IF res = "ok"
                               THEN [deployments EXCEPT ![d].live = FALSE]
                               ELSE deployments
             /\ proc' = [proc EXCEPT ![p] = [@ EXCEPT !.pc = "s_commit", !.teardown = res]]
    /\ UNCHANGED <<apps, app_versions, logs, repos, uniqueVersions, billing, updatesDone, jobs>>

\* the row suspendApp writes
SuspendedRow_noTime(row) ==
    [row EXCEPT !.deployment_status = "suspended"]

SuspendedRow_toggle(row) ==
    IF row.deployment_status = "suspended"
    THEN [row EXCEPT !.deployment_status = "deployed", !.suspended_at = "NULL"]
    ELSE [row EXCEPT !.deployment_status = "suspended", !.suspended_at = "NOW"]

SuspendedRow(row) ==
    [row EXCEPT !.deployment_status = "suspended", !.suspended_at = "NOW"]

\* UPDATE apps SET deployment_status = 'suspended', suspended_at = NOW();
\* INSERT INTO logs ('warning', { reason }); return
SuspendCommit(p) ==
    /\ proc[p].pc = "s_commit"
    /\ LET a == proc[p].appId
       IN  /\ apps' = IF a \in DOMAIN apps
                      THEN [apps EXCEPT ![a] = SuspendedRow(@)]
                      ELSE apps
           /\ logs' = AddLog(LogEntry(proc[p].userId, a, "warning", "App suspendida",
                                      NullLabel, proc[p].reason))
           /\ proc' = [proc EXCEPT ![p] =
                [@ EXCEPT !.pc = "done", !.logged = @ + 1, !.ret = [NoRet EXCEPT !.success = TRUE]]]
    /\ UNCHANGED <<app_versions, repos, deployments, uniqueVersions, billing, updatesDone, jobs>>

\* -------------------------------------------------------- reactivateApp
\* call + SELECT apps LEFT JOIN app_versions ... ORDER BY av.version DESC LIMIT 1;
\* the catch returns without writing anything
ReactivateCalls(a, u) ==
    IF ~Found(a, u)
    THEN {[Begin("reactivate", a, u) EXCEPT !.pc = "done",
              !.error = "App not found",
              !.ret = [NoRet EXCEPT !.error = "App not found"]]}
    ELSE IF LatestRows(a) = {}
    THEN {[Begin("reactivate", a, u) EXCEPT !.pc = "done", !.app = apps[a],
              !.error = "No code found for reactivation",
              !.ret = [NoRet EXCEPT !.error = "No code found for reactivation"]]}
    ELSE {[Begin("reactivate", a, u) EXCEPT !.pc = "a_publish", !.app = apps[a],
              !.code = Parse(r.code)] : r \in LatestRows(a)}

StartReactivate(p, k) ==
    /\ CanStart(p, k)
    /\ RoomFor(deployments, MaxDeployments)
    /\ \E a \in AppIds, u \in Users :
         \E call \in ReactivateCalls(a, u) : proc' = [proc EXCEPT ![p] = call]
    /\ UNCHANGED <<apps, app_versions, logs, repos, deployments, uniqueVersions, billing, updatesDone, jobs>>

ReactivatePublish(p) ==
    /\ proc[p].pc = "a_publish"
    /\ Publish(p, proc[p].code, "a_commit", "done")
    /\ UNCHANGED <<apps, app_versions, logs, repos, uniqueVersions, billing, updatesDone, jobs>>

\* the row reactivateApp writes on success
ReactivatedRow_resetVersion(row, d) ==
    [row EXCEPT !.deploy_url = d, !.vercel_deployment_id = d,
                !.deployment_status = "deployed", !.suspended_at = "NULL",
                !.current_version = DeployedLabel]

ReactivatedRow(row, d) ==
    [row EXCEPT !.deploy_url = d, !.vercel_deployment_id = d,
                !.deployment_status = "deployed", !.suspended_at = "NULL"]

ReactivateCommit(p) ==
    /\ proc[p].pc = "a_commit"
    /\ LET a == proc[p].appId
           d == proc[p].deploy
       IN  /\ apps' = IF a \in DOMAIN apps
                      THEN [apps EXCEPT ![a] = ReactivatedRow(@, d)]
                      ELSE apps
           /\ logs' = AddLog(LogEntry(proc[p].userId, a, "success", "App reactivada",
                                      NullLabel, ""))
           /\ proc' = [proc EXCEPT ![p] =
                [@ EXCEPT !.pc = "done", !.logged = @ + 1,
                          !.ret = [NoRet EXCEPT !.success = TRUE, !.deployUrl = d]]]
    /\ UNCHANGED <<app_versions, repos, deployments, uniqueVersions, billing, updatesDone, jobs>>

\* -------------------------------------------------------- specification
Generate == \E u \in Owners : SaveApp(u) \/ SaveErrorApp(u)

Step(p) ==
    \/ DeployMark(p) \/ DeployBackup(p) \/ DeployPublish(p) \/ DeployCommit(p)
    \/ UpdateMark(p) \/ UpdateBackup(p) \/ UpdateInsert(p) \/ UpdatePublish(p)
    \/ UpdateCommit(p)
    \/ RollbackMark(p) \/ RollbackPublish(p) \/ RollbackCommit(p)
    \/ SuspendTeardown(p) \/ SuspendCommit(p)
    \/ ReactivatePublish(p) \/ ReactivateCommit(p)
    \/ Catch(p) \/ Respond(p)

Start(p, k) ==
    \/ StartDeploy(p, k) \/ StartUpdate(p, k) \/ StartRollback(p, k)
    \/ StartSuspend(p, k) \/ StartReactivate(p, k)

\* one orchestrator call at a time
Next ==
    \/ Generate
    \/ \E p \in Procs : Start(p, 1) \/ Step(p)

Spec == Init /\ [][Next]_vars

\* ------------------------------------------- POST /api/stripe/webhook
\* the apps of the user whose subscription the payment events are about
HookAppIds == {1, 2}

\* the reason handlePaymentFailed passes to suspendApp
PaymentFailedReason == "Subscription payment failed"

\* no delivery is being handled
HookQuiet == hook.pc \in {"idle", "finished"}

\* whether res.json({ received: true }) has been sent when the route handler
\* returns
Acked_afterProcessing(valid) == ~valid

Acked(valid) == TRUE

\* the route handler: constructEvent, the acknowledgement, and setTimeout of
\* processWebhookEvent for an event whose signature verifies
WebhookRoute ==
    /\ HookQuiet
    /\ InFlight = {}
    /\ \E type \in EventTypes, valid \in BOOLEAN, s \in Owners :
         hook' = [IdleHook EXCEPT !.pc = IF valid THEN "scheduled" ELSE "finished",
                                  !.type = IF valid THEN type ELSE "",
                                  !.subscription = IF valid THEN s ELSE NoUser,
                                  !.valid = valid, !.acked = Acked(valid),
                                  !.start = apps]
    /\ UNCHANGED <<apps, app_versions, logs, repos, deployments, proc,
                   uniqueVersions, updatesDone, other, subscriptions, users, requests, jobs>>

\* SELECT id FROM apps WHERE user_id = $1 AND deployed = TRUE
DeployedApps(u) == {a \in DOMAIN apps : apps[a].user_id = u /\ apps[a].deployed}

\* SELECT id FROM apps WHERE user_id = $1 AND deployment_status = 'suspended'
SuspendedApps(u) ==
    {a \in DOMAIN apps : apps[a].user_id = u /\ apps[a].deployment_status = "suspended"}

\* the handler has its user and the apps it selected
Selected(u, ids) ==
    [hook EXCEPT !.pc = "loop", !.processed = TRUE,
                 !.userId = u, !.batch = ids, !.selected = ids,
                 !.pre = [apps |-> apps, versions |-> app_versions,
                          deployments |-> deployments]]

\* handleSubscriptionDeleted up to the SELECT: the updates of subscriptions
\* and users belong to the transaction and are written when it commits
HandleSubscriptionDeleted ==
    /\ hook.pc = "scheduled"
    /\ hook.type = SubscriptionDeleted
    /\ \E u \in {hook.subscription, NoUser} :
         hook' = Selected(u, IF u = NoUser THEN {} ELSE DeployedApps(u))
    /\ UNCHANGED <<apps, app_versions, logs, repos, deployments, proc,
                   uniqueVersions, updatesDone, other, subscriptions, users, requests, jobs>>

\* handlePaymentFailed up to the SELECT: the subscription is marked past_due,
\* then stripe.subscriptions.retrieve gives the user or throws
HandlePaymentFailed ==
    /\ hook.pc = "scheduled"
    /\ hook.type = PaymentFailed
    /\ subscriptions' = [subscriptions EXCEPT ![hook.subscription] = "past_due"]
    /\ \E retrieved \in BOOLEAN, u \in {hook.subscription, NoUser} :
         hook' = IF retrieved /\ u # NoUser
                 THEN Selected(u, DeployedApps(u))
                 ELSE [hook EXCEPT !.pc = "finished", !.processed = TRUE]
    /\ UNCHANGED <<apps, app_versions, logs, repos, deployments, proc,
                   uniqueVersions, updatesDone, other, users, requests, jobs>>

\* handlePaymentSucceeded up to the SELECT
HandlePaymentSucceeded ==
    /\ hook.pc = "scheduled"
    /\ hook.type = PaymentSucceeded
    /\ \E retrieved \in BOOLEAN, u \in {hook.subscription, NoUser} :
         hook' = IF retrieved /\ u # NoUser
                 THEN Selected(u, SuspendedApps(u))
                 ELSE [hook EXCEPT !.pc = "finished", !.processed = TRUE]
    /\ UNCHANGED <<apps, app_versions, logs, repos, deployments, proc,
                   uniqueVersions, updatesDone, other, subscriptions, users, requests, jobs>>

\* the calls the loop body can make for app a
HookCalls(a) ==
    IF hook.type = PaymentSucceeded
    THEN ReactivateCalls(a, hook.userId)
    ELSE {SuspendCall(a, hook.userId,
                      IF hook.type = PaymentFailed THEN PaymentFailedReason
                      ELSE "Subscription canceled")}

\* for (const app of appsResult.rows) { try { await ...App(app.id, userId) }:
\* the rows come in no stated order
HookCall(p) ==
    /\ hook.pc = "loop"
    /\ hook.batch # {}
    /\ CanStart(p, IF other.pc = "awaiting" THEN 2 ELSE 1)
    /\ RoomFor(deployments, MaxDeployments)
    /\ \E a \in hook.batch :
         /\ \E call \in HookCalls(a) : proc' = [proc EXCEPT ![p] = call]
         /\ hook' = [hook EXCEPT !.pc = "awaiting", !.proc = p,
                                 !.batch = @ \ {a}, !.called = @ \cup {a}]
    /\ UNCHANGED <<apps, app_versions, logs, repos, deployments,
                   uniqueVersions, updatesDone, other, subscriptions, users, requests, jobs>>

\* the apps left to the loop after a call came back: the try/catch around
\* each call keeps the loop going whatever the call did
AfterCall_abort(ok, batch) == IF ok THEN batch ELSE {}

AfterCall(ok, batch) == batch

\* the awaited call came back
HookCollect ==
    /\ hook.pc = "awaiting"
    /\ proc[hook.proc].pc = "done"
    /\ LET q == proc[hook.proc]
           ok == q.ret.success /\ q.teardown \in {"none", "ok"}
       IN  hook' = [hook EXCEPT !.pc = "loop", !.proc = 0,
                        !.batch = AfterCall(ok, @),
                        !.failed = IF ok THEN @ ELSE @ \cup {q.appId},
                        !.rows = IF q.logged > 0 THEN Append(@, logs) ELSE @]
    /\ proc' = [proc EXCEPT ![hook.proc] = IdleProc]
    /\ UNCHANGED <<apps, app_versions, logs, repos, deployments,
                   uniqueVersions, updatesDone, other, subscriptions, users, requests, jobs>>

\* the summary row of each handler; metadata carries appsResult.rows.length
SummaryLog ==
    LET n == ToString(Cardinality(hook.selected))
    IN  IF hook.type = SubscriptionDeleted
        THEN LogEntry(hook.userId, 0, "warning",
                      "Suscripcion cancelada - Apps suspendidas", NullLabel, n)
        ELSE IF hook.type = PaymentFailed
        THEN LogEntry(hook.userId, 0, "error",
                      "Pago fallido - Apps suspendidas", NullLabel, n)
        ELSE LogEntry(hook.userId, 0, "info",
                      "Pago procesado - Apps reactivadas", NullLabel, n)

\* after the loop: the summary row, and for handleSubscriptionDeleted the
\* commit of the transaction
HookSummary ==
    /\ hook.pc = "loop"
    /\ hook.batch = {}
    /\ logs' = IF hook.userId # NoUser THEN AddLog(SummaryLog) ELSE logs
    /\ hook' = [hook EXCEPT !.pc = "finished",
                   !.rows = IF hook.userId # NoUser THEN Append(@, SummaryLog) ELSE @]
    /\ subscriptions' = IF hook.type = SubscriptionDeleted
                        THEN [subscriptions EXCEPT ![hook.subscription] = "canceled"]
                        ELSE subscriptions
    /\ users' = IF hook.type = SubscriptionDeleted /\ hook.userId # NoUser
                THEN [users EXCEPT ![hook.userId] = "free_trial"]
                ELSE users
    /\ UNCHANGED <<apps, app_versions, repos, deployments, proc,
                   uniqueVersions, updatesDone, other, requests, jobs>>

\* the requests of the subscribed user, all made before the first delivery:
\* they bring the apps to the states the deliveries find
RouteCall(p) ==
    /\ hook.pc = "idle"
    /\ requests < MaxRequests
    /\ requests' = requests + 1
    /\ CanStart(p, 1)
    /\ RoomFor(deployments, MaxDeployments)
    /\ RoomFor(repos, MaxRepos * Cardinality(HookAppIds))
    /\ \E a \in HookAppIds, u \in Owners :
         \E call \in DeployCalls(a, u) \cup ReactivateCalls(a, u)
                     \cup {SuspendCall(a, u, reason) : reason \in Reasons} :
            proc' = [proc EXCEPT ![p] = call]
    /\ UNCHANGED <<apps, app_versions, logs, repos, deployments,
                   uniqueVersions, updatesDone, hook, other, subscriptions, users, jobs>>

HookStep(p) ==
    \/ DeployMark(p) \/ DeployBackup(p) \/ DeployPublish(p) \/ DeployCommit(p)
    \/ SuspendTeardown(p) \/ SuspendCommit(p)
    \/ ReactivatePublish(p) \/ ReactivateCommit(p)
    \/ Catch(p) \/ Respond(p)

NextWebhook ==
    \/ \E u \in Owners : SaveAppOf(u, HookAppIds)
    \/ WebhookRoute
    \/ HandleSubscriptionDeleted
    \/ HandlePaymentFailed
    \/ HandlePaymentSucceeded
    \/ HookCollect
    \/ HookSummary
    \/ \E p \in Procs : HookCall(p) \/ RouteCall(p) \/ HookStep(p)

\* a second delivery arrives while the first is scheduled: the route handler
\* acknowledges it and schedules its processWebhookEvent too
SecondDelivery ==
    /\ hook.pc = "scheduled"
    /\ other.pc = "idle"
    /\ \E type \in EventTypes : other' = [hook EXCEPT !.type = type]
    /\ UNCHANGED <<apps, app_versions, logs, repos, deployments, proc,
                   uniqueVersions, updatesDone, hook, subscriptions, users, requests, jobs>>

\* the event loop resumes the handler of the other delivery
Switch ==
    /\ other.pc \notin {"idle", "finished"}
    /\ hook' = other
    /\ other' = hook
    /\ UNCHANGED <<apps, app_versions, logs, repos, deployments, proc,
                   uniqueVersions, updatesDone, subscriptions, users, requests, jobs>>

\* the first delivery
FirstDelivery == hook.pc = "idle" /\ WebhookRoute

\* two deliveries whose handlers interleave at every await
NextPair ==
    \/ \E u \in Owners : SaveAppOf(u, HookAppIds)
    \/ FirstDelivery
    \/ SecondDelivery
    \/ Switch
    \/ HandleSubscriptionDeleted
    \/ HandlePaymentFailed
    \/ HandlePaymentSucceeded
    \/ HookCollect
    \/ HookSummary
    \/ \E p \in Procs : HookCall(p) \/ RouteCall(p) \/ HookStep(p)

\* no version row is inserted after generation here: one insert rule is enough
InitWebhook == Init /\ uniqueVersions

SpecWebhook == InitWebhook /\ [][NextWebhook]_vars

SpecPair == InitWebhook /\ [][NextPair]_vars

\* ------------------------------------------------ requests that overlap
\* a request of the owner to any deploy route, taken while at most one other
\* call is in flight
RaceCalls(a, u) ==
    LET publishing == RoomFor(deployments, MaxDeployments)
    IN  {SuspendCall(a, u, reason) : reason \in Reasons}
        \cup (IF publishing THEN ReactivateCalls(a, u) ELSE {})
        \cup (IF publishing THEN {RollbackCall(a, u, t) : t \in TargetVersions} ELSE {})
        \cup (IF publishing /\ RoomFor(repos, MaxRepos) THEN DeployCalls(a, u) ELSE {})
        \cup (IF publishing /\ RoomFor(app_versions, MaxVersions)
              THEN {UpdateCall(a, u, c) : c \in UpdateCodes} ELSE {})

RaceCall(p) ==
    /\ CanStart(p, 2)
    /\ requests < MaxRequests + 1
    /\ requests' = requests + 1
    /\ \E a \in AppIds, u \in Owners :
         \E call \in RaceCalls(a, u) : proc' = [proc EXCEPT ![p] = call]
    /\ UNCHANGED <<apps, app_versions, logs, repos, deployments,
                   uniqueVersions, updatesDone, hook, other, subscriptions, users, jobs>>

\* the owner's requests served as they arrive, two at a time at most
NextRace ==
    \/ \E u \in Owners : SaveApp(u)
    \/ \E p \in Procs : RaceCall(p) \/ Step(p)

SpecRace == Init /\ [][NextRace]_vars

\* --------------------------------------- requests between the deliveries
\* a request of the owner to any deploy route, served while no delivery is
\* being handled: authenticate and requireOwnership let every owner through
OwnerCall(p) ==
    /\ HookQuiet
    /\ CanStart(p, 1)
    /\ requests < MaxRequests + 1
    /\ requests' = requests + 1
    /\ \E a \in AppIds, u \in Owners :
         \E call \in RaceCalls(a, u) : proc' = [proc EXCEPT ![p] = call]
    /\ UNCHANGED <<apps, app_versions, logs, repos, deployments,
                   uniqueVersions, updatesDone, hook, other, subscriptions, users, jobs>>

NextOwner ==
    \/ \E u \in Owners : SaveApp(u)
    \/ WebhookRoute
    \/ HandleSubscriptionDeleted
    \/ HandlePaymentFailed
    \/ HandlePaymentSucceeded
    \/ HookCollect
    \/ HookSummary
    \/ \E p \in Procs : HookCall(p) \/ OwnerCall(p) \/ Step(p)

SpecOwner == Init /\ [][NextOwner]_vars

\* ------------------------------------------------------- job processor
\* addJob(type, data): the row is inserted as 'pending', due at once, and
\* the same job is pushed to jobQueue
AddJob ==
    /\ jobs.status = "none"
    /\ jobs' = [jobs EXCEPT !.status = "pending", !.due = TRUE,
                            !.queue = Append(@, 0)]
    /\ UNCHANGED platform

\* processJob(job) for a job object with the given attempts counter: the row
\* becomes 'processing', the handler runs, then 'completed', or attempts++
\* and 'failed' at maxRetries, or 'pending' again with the object pushed
\* back after RETRY_DELAY
ProcessJob(j, attempts, ok) ==
    LET ran == [j EXCEPT !.runs = @ + 1, !.successes = IF ok THEN @ + 1 ELSE @,
                         !.late = IF j.status \in {"completed", "failed"}
                                  THEN @ + 1 ELSE @]
    IN  IF ok THEN [ran EXCEPT !.status = "completed"]
        ELSE IF attempts + 1 >= MAX_RETRIES THEN [ran EXCEPT !.status = "failed"]
        ELSE [ran EXCEPT !.status = "pending", !.attempts = attempts + 1,
                         !.due = FALSE, !.timers = Append(@, attempts + 1)]

\* setInterval(processQueue, 5000): a pass starts when the previous one is over
QueueTick ==
    /\ jobs.pc = "idle"
    /\ jobs.status # "none"
    /\ jobs.runs < MaxRuns
    /\ jobs' = [jobs EXCEPT !.pc = "db"]
    /\ UNCHANGED platform

\* SELECT * FROM jobs WHERE status = 'pending' AND scheduled_for <= now, and
\* processJob of a fresh object built from each row
QueueDbPass ==
    /\ jobs.pc = "db"
    /\ \E ok \in BOOLEAN :
         jobs' = IF jobs.status = "pending" /\ jobs.due
                 THEN [ProcessJob(jobs, jobs.attempts, ok) EXCEPT !.pc = "memory"]
                 ELSE [jobs EXCEPT !.pc = "memory"]
    /\ UNCHANGED platform

\* while (jobQueue.length > 0) { job = jobQueue.shift(); await processJob(job) }:
\* the objects of jobQueue keep the scheduledFor of addJob, so they are due
QueueMemoryPass ==
    /\ jobs.pc = "memory"
    /\ \E ok \in BOOLEAN :
         jobs' = IF jobs.queue = <<>>
                 THEN [jobs EXCEPT !.pc = "idle"]
                 ELSE ProcessJob([jobs EXCEPT !.queue = Tail(@)], Head(jobs.queue), ok)
    /\ UNCHANGED platform

\* setTimeout(() => jobQueue.push(job), RETRY_DELAY) fires; by then the
\* scheduled_for of the row has passed too
RetryTimer ==
    /\ jobs.timers # <<>>
    /\ jobs' = [jobs EXCEPT !.timers = Tail(@), !.queue = Append(@, Head(jobs.timers)),
                            !.due = TRUE]
    /\ UNCHANGED platform

NextJobs == AddJob \/ QueueTick \/ QueueDbPass \/ QueueMemoryPass \/ RetryTimer

SpecJobs == Init /\ [][NextJobs]_vars

\* =============================================================== claims
Done(p, op) == proc[p].pc = "done" /\ proc[p].op = op

\* the (appId, userId) pair of the call found a row when the call started
FoundAtStart(p) ==
    /\ proc[p].appId \in DOMAIN proc[p].pre.apps
    /\ proc[p].pre.apps[proc[p].appId].user_id = proc[p].userId

\* every row that existed when the call started is unchanged
RowsUntouched(p) ==
    \A a \in DOMAIN proc[p].pre.apps :
        a \in DOMAIN apps /\ apps[a] = proc[p].pre.apps[a]

\* the version rows that existed when the call started are still there, unchanged
HistoryKept(p) ==
    /\ Len(proc[p].pre.versions) <= Len(app_versions)
    /\ \A i \in DOMAIN proc[p].pre.versions : app_versions[i] = proc[p].pre.versions[i]

\* C1: in deployApp and updateApp, once the archive step has failed the
\* publisher is not invoked in that call, and the call ends with
\* deployment_status 'failed' and a {success: false, error} result
C1_ArchiveBeforePublish ==
    \A p \in Procs :
        (proc[p].op \in {"deploy", "update"} /\ proc[p].backup = "failed") =>
            /\ ~proc[p].published
            /\ proc[p].pc \in {"catch", "done"}
            /\ proc[p].pc = "done" =>
                  /\ ~proc[p].ret.success
                  /\ proc[p].ret.error # ""
                  /\ apps[proc[p].appId].deployment_status = "failed"

C1_Witness ==
    \E p \in Procs :
        /\ Done(p, "update")
        /\ proc[p].backup = "failed"
        /\ proc[p].app.github_repo_name # 0

\* C2: when deployApp returns success the row is 'deployed', current_version
\* is 1, deploy_url is set, and the archive and hosting handles are the ones
\* the archive and publish steps of this call produced
C2_DeploySuccessRow ==
    \A p \in Procs :
        (Done(p, "deploy") /\ proc[p].ret.success) =>
            LET row == apps[proc[p].appId]
            IN  /\ row.deployment_status = "deployed"
                /\ row.deployed
                /\ row.current_version = Label(FALSE, <<1>>)
                /\ row.deploy_url # 0
                /\ proc[p].backup = "ok" /\ proc[p].published
                /\ proc[p].repo \in DOMAIN repos
                /\ proc[p].deploy \in DOMAIN deployments
                /\ row.github_repo_name = proc[p].repo
                /\ row.github_repo_url = proc[p].repo
                /\ row.vercel_deployment_id = proc[p].deploy
                /\ row.deploy_url = proc[p].deploy
                /\ row.github_repo_name # proc[p].app.github_repo_name
                /\ row.vercel_deployment_id # proc[p].app.vercel_deployment_id

C2_Witness ==
    \E p \in Procs : Done(p, "deploy") /\ proc[p].ret.success

\* C3: deployApp on an app without version rows, and deployApp, updateApp or
\* rollbackApp with an (appId, userId) pair that finds no row, return
\* {success: false, error} and change no App row
C3_NotFoundUntouched ==
    \A p \in Procs :
        (/\ proc[p].pc = "done"
         /\ proc[p].op \in {"deploy", "update", "rollback"}
         /\ \/ ~FoundAtStart(p)
            \/ /\ proc[p].op = "deploy"
               /\ VersionsOf(proc[p].pre.versions, proc[p].appId) = <<>>)
        => /\ ~proc[p].ret.success
           /\ proc[p].ret.error # ""
           /\ RowsUntouched(p)

\* C4: a successful updateApp raises the minor component of the label by one,
\* keeps the major, and inserts exactly one row whose version is N+1 (N the
\* number of earlier successful updates, so N+1 is updatesDone once this
\* update is counted) and differs from every stored version
C4_UpdateVersioning ==
    \A p \in Procs :
        (Done(p, "update") /\ proc[p].ret.success) =>
            LET a == proc[p].appId
                old == proc[p].app.current_version
                new == apps[a].current_version
                before == proc[p].pre.versions
            IN  /\ Len(old.parts) >= 2 /\ Len(new.parts) = Len(old.parts)
                /\ new.parts[1] = old.parts[1]
                /\ new.parts[2] = old.parts[2] + 1
                /\ HistoryKept(p)
                /\ Len(app_versions) = Len(before) + 1
                /\ app_versions[Len(app_versions)].app_id = a
                /\ app_versions[Len(app_versions)].version = updatesDone[a]
                /\ app_versions[Len(app_versions)].version \notin VersionNumbers(before, a)

\* C5: the versions of an app's rows are pairwise distinct and form 1..k, and
\* no call changes a row that exists
C5_VersionsGapless ==
    /\ \A a \in DOMAIN apps :
          /\ Cardinality(VersionNumbers(app_versions, a)) = Len(VersionsOf(app_versions, a))
          /\ VersionNumbers(app_versions, a) = 1..Len(VersionsOf(app_versions, a))
    /\ \A p \in Procs : proc[p].pc # "idle" => HistoryKept(p)

\* the files a repository holds for a version, partitioned by tier
ArchivedCode(snapshot) ==
    Code({f \in snapshot.files : f.path[1] = "frontend"},
         {f \in snapshot.files : f.path[1] = "backend"})

\* C6: after deployApp and an updateApp that archived a new version, the code
\* a successful rollbackApp handed to the publisher for an archived target
\* version is the file tree archived for that version
C6_RollbackPublishesArchive ==
    \A p \in Procs :
        (/\ Done(p, "rollback")
         /\ proc[p].ret.success
         /\ proc[p].published
         /\ proc[p].app.github_repo_name \in DOMAIN repos)
        => LET repo == repos[proc[p].app.github_repo_name]
           IN  \A s \in repo.snapshots :
                  (/\ s.version = proc[p].target
                   /\ \E t \in repo.snapshots : t.version # s.version)
                  => proc[p].code = ArchivedCode(s)

\* C7: a successful rollbackApp sets current_version to the target and the
\* status to 'deployed', and neither adds nor removes a version row
C7_RollbackFrame ==
    \A p \in Procs :
        (Done(p, "rollback") /\ proc[p].ret.success) =>
            /\ apps[proc[p].appId].current_version = proc[p].target
            /\ apps[proc[p].appId].deployment_status = "deployed"
            /\ app_versions = proc[p].pre.versions

C7_Witness ==
    \E p \in Procs :
        /\ Done(p, "rollback") /\ proc[p].ret.success
        /\ proc[p].target = Label(FALSE, <<1>>)
        /\ \E i \in DOMAIN app_versions : app_versions[i].code = Stringify(CHOOSE c \in UpdateCodes : TRUE)

\* C8: suspendApp on an app that the previous suspendApp left suspended
\* returns success and leaves it suspended, and either issues no second
\* teardown or its teardown takes the 'already gone' answer as a success
C8_SuspendIdempotent ==
    \A p \in Procs :
        (/\ Done(p, "suspend")
         /\ FoundAtStart(p)
         /\ proc[p].app.deployment_status = "suspended")
        => /\ proc[p].ret.success
           /\ apps[proc[p].appId].deployment_status = "suspended"
           /\ \/ proc[p].teardown = "none"
              \/ proc[p].teardown # "gone"

\* C9: suspendApp on a found app sets 'suspended' and suspended_at and writes
\* one warning log with the reason, whatever the teardown did
C9_SuspendAlways ==
    \A p \in Procs :
        (Done(p, "suspend") /\ FoundAtStart(p)) =>
            /\ proc[p].ret.success
            /\ apps[proc[p].appId].deployment_status = "suspended"
            /\ apps[proc[p].appId].suspended_at # "NULL"
            /\ proc[p].logged = 1
            /\ logs.log_type = "warning"
            /\ logs.app_id = proc[p].appId
            /\ logs.detail = proc[p].reason

C9_Witness ==
    \E p \in Procs :
        /\ Done(p, "suspend")
        /\ proc[p].teardown = "error"
        /\ apps[proc[p].appId].deployment_status = "suspended"

\* the highest version among the rows of app a
MaxVersionOf(rows, a) ==
    CHOOSE v \in VersionNumbers(rows, a) : \A w \in VersionNumbers(rows, a) : w <= v

\* C10: reactivateApp publishes the code of a row with the highest version
\* the app had when it was called, and on success sets 'deployed', clears
\* suspended_at and stores the new deploy URL and deployment id
C10_ReactivateLatest ==
    \A p \in Procs :
        (proc[p].op = "reactivate" /\ proc[p].published) =>
            LET a == proc[p].appId
                before == proc[p].pre.versions
            IN  /\ \E i \in DOMAIN before :
                      /\ before[i].app_id = a
                      /\ before[i].version = MaxVersionOf(before, a)
                      /\ proc[p].code = before[i].code.json
                /\ (proc[p].pc = "done" /\ proc[p].ret.success) =>
                      /\ apps[a].deployment_status = "deployed"
                      /\ apps[a].suspended_at = "NULL"
                      /\ apps[a].deploy_url = proc[p].deploy
                      /\ apps[a].vercel_deployment_id = proc[p].deploy
                      /\ proc[p].deploy \in DOMAIN deployments
                      /\ proc[p].deploy # proc[p].app.vercel_deployment_id

C10_Witness ==
    \E p \in Procs :
        /\ Done(p, "reactivate") /\ proc[p].ret.success
        /\ proc[p].app.suspended_at # "NULL"
        /\ proc[p].app.deployment_status = "failed"
        /\ proc[p].code \in UpdateCodes
        /\ MaxVersionOf(proc[p].pre.versions, proc[p].appId) > 1

\* an internal step of the call failed: an error was thrown inside the
\* operation, or the teardown request of suspendApp was not answered ok
StepFailed(p) ==
    \/ proc[p].error # ""
    \/ proc[p].teardown \in {"error", "gone"}

\* C11: when an internal step of deployApp, updateApp, rollbackApp, suspendApp
\* or reactivateApp fails on a found app, the call returns {success: false,
\* error}, has written a log row carrying the error message, and leaves the
\* app 'failed' (a failed reactivateApp too, not 'suspended')
C11_FailurePropagation ==
    \A p \in Procs :
        (proc[p].pc = "done" /\ FoundAtStart(p) /\ StepFailed(p)) =>
            /\ ~proc[p].ret.success
            /\ proc[p].ret.error # ""
            /\ proc[p].logged >= 1
            /\ logs.log_type = "error"
            /\ logs.detail = proc[p].ret.error
            /\ apps[proc[p].appId].deployment_status = "failed"

\* C12: a failed deployApp, updateApp or rollbackApp changes nothing but
\* deployment_status (to 'failed') on the App row, and tears down no deployment
C12_FailureFrame ==
    \A p \in Procs :
        (/\ proc[p].pc = "done"
         /\ proc[p].op \in {"deploy", "update", "rollback"}
         /\ ~proc[p].ret.success
         /\ proc[p].appId \in DOMAIN proc[p].pre.apps)
        => LET a == proc[p].appId
               before == proc[p].pre.apps[a]
           IN  /\ apps[a] = [before EXCEPT !.deployment_status = "failed"]
               /\ \A d \in DOMAIN proc[p].pre.deployments :
                      deployments[d] = proc[p].pre.deployments[d]

C12_Witness ==
    \E p \in Procs :
        /\ Done(p, "update") /\ ~proc[p].ret.success
        /\ proc[p].published
        /\ proc[p].app.deploy_url # 0
        /\ deployments[proc[p].app.vercel_deployment_id].live
        /\ Len(app_versions) > Len(proc[p].pre.versions)

\* the changes of deployment_status the lifecycle allows
Lifecycle(from, to) ==
    CASE to = "deploying" -> from \in {"none", "failed"}
      [] to \in {"updating", "rolling_back"} -> from \in {"deployed", "failed"}
      [] to = "suspended" -> from = "deployed"
      [] to = "deployed" -> from \in {"deploying", "updating", "rolling_back",
                                      "suspended", "failed"}
      [] OTHER -> TRUE

\* C13: every change of an app's deployment_status follows the lifecycle
C13_Lifecycle ==
    [][\A a \in DOMAIN apps :
          apps'[a].deployment_status # apps[a].deployment_status =>
              Lifecycle(apps[a].deployment_status, apps'[a].deployment_status)]_vars

\* the position of a label in the order of versions: its minor component,
\* 0 for a label without one (the major component is always 1)
LabelRank(label) == IF Len(label.parts) >= 2 THEN label.parts[2] ELSE 0

\* the label under which a successful call published
PublishedLabel(p) ==
    CASE proc[p].op = "deploy" -> DeployedLabel
      [] proc[p].op = "update" -> NewVersion(proc[p].app.current_version)
      [] proc[p].op = "rollback" -> proc[p].target
      [] OTHER -> proc[p].app.current_version

\* deploy_url, when set, is the one deployment recorded for the app
OneDeployUrl ==
    \A a \in DOMAIN apps :
        apps[a].deploy_url # 0 =>
            /\ apps[a].deploy_url = apps[a].vercel_deployment_id
            /\ apps[a].deploy_url \in DOMAIN deployments
            /\ deployments[apps[a].deploy_url].app_id = a

\* C14 as stated: current_version is the highest version deployed so far
\* (a successful deployApp, updateApp or rollbackApp leaves the higher of the
\* version it published and the one recorded before), and one deploy_url
C14_HighestDeployed ==
    /\ OneDeployUrl
    /\ \A p \in Procs :
          (/\ proc[p].pc = "done" /\ proc[p].ret.success
           /\ proc[p].op \in {"deploy", "update", "rollback"})
          => LET before == LabelRank(proc[p].app.current_version)
                 now == LabelRank(PublishedLabel(p))
             IN  LabelRank(apps[proc[p].appId].current_version) =
                     IF before > now THEN before ELSE now

\* C14 amended: current_version is the label of the latest successful
\* deployApp, updateApp or rollbackApp (1, the incremented label, the
\* rollback target); no other call and no failed call changes it; and one
\* deploy_url
C14_LatestDeployed ==
    /\ OneDeployUrl
    /\ \A p \in Procs :
          (proc[p].pc # "idle" /\ proc[p].appId \in DOMAIN proc[p].pre.apps) =>
              apps[proc[p].appId].current_version =
                  IF proc[p].pc = "done" /\ proc[p].ret.success
                  THEN PublishedLabel(p)
                  ELSE proc[p].pre.apps[proc[p].appId].current_version

C14_Witness ==
    \E p \in Procs :
        /\ Done(p, "rollback") /\ proc[p].ret.success
        /\ LabelRank(proc[p].target) < LabelRank(proc[p].app.current_version)

\* C19: when a status poll answered ERROR or CANCELED, that poll was the last
\* one of the call, the publish is reported as failed, and the operation ends
\* with deployment_status 'failed'
C19_TerminalStateFails ==
    \A p \in Procs :
        (proc[p].pc = "done" /\ proc[p].published /\ proc[p].wait.terminalAt # 0) =>
            /\ proc[p].wait.polls = proc[p].wait.terminalAt
            /\ ~DeploySuccess(proc[p].wait)
            /\ ~proc[p].ret.success
            /\ apps[proc[p].appId].deployment_status = "failed"

\* C20: when no status poll answers READY (failed status requests included),
\* waitForDeployment makes at most maxAttempts polls and returns without
\* raising, and the operation goes on as a success
C20_PollingBounded ==
    \A p \in Procs :
        (proc[p].published /\ proc[p].wait.created /\ ~proc[p].wait.ready) =>
            /\ proc[p].wait.polls <= MaxAttempts
            /\ ~proc[p].wait.raised
            /\ proc[p].pc # "catch"
            /\ proc[p].pc = "done" =>
                  /\ proc[p].ret.success
                  /\ proc[p].deploy \in DOMAIN deployments
                  /\ apps[proc[p].appId].deployment_status = "deployed"
                  /\ apps[proc[p].appId].deploy_url = proc[p].deploy

C20_Witness ==
    \E p \in Procs :
        /\ Done(p, "deploy") /\ proc[p].ret.success
        /\ ~proc[p].wait.ready /\ proc[p].wait.terminalAt = 0
        /\ proc[p].wait.polls = MaxAttempts

\* C15: processWebhookEvent runs only for a delivery that was acknowledged
\* and whose signature verified; a delivery with a bad signature is
\* acknowledged and dropped: nothing is selected, called or written for it
C15_AckBeforeProcessing ==
    /\ (hook.pc \in {"scheduled", "loop", "awaiting"} \/ hook.processed)
          => hook.acked /\ hook.valid
    /\ (hook.pc # "idle" /\ ~hook.valid)
          => /\ hook.acked
             /\ hook.pc = "finished"
             /\ ~hook.processed
             /\ hook.called = {} /\ hook.rows = <<>>

\* a delivery was processed to the end and wrote its summary
C15_Witness ==
    /\ hook.pc = "finished" /\ hook.valid /\ hook.acked /\ hook.processed
    /\ hook.called # {}
    /\ Len(hook.rows) > 1

\* an app has a deployment that is up on the hosting provider
LiveDeployment(a, ds) == \E d \in DOMAIN ds : ds[d].app_id = a /\ ds[d].live

\* the handler of an event of these types ran to its end for a known user
Processed(types) ==
    /\ hook.pc = "finished"
    /\ hook.type \in types
    /\ hook.processed
    /\ hook.userId # NoUser

\* C16: when the teardown of one app fails while a cancelled subscription's
\* apps are suspended, every other selected app is still called and ends
\* suspended, and a row of logs records the failure
C16_BulkSuspensionIsolated ==
    (/\ Processed({SubscriptionDeleted})
     /\ Cardinality(hook.selected) > 1
     /\ Cardinality(hook.failed) = 1)
       => /\ \A a \in hook.selected \ hook.failed :
                a \in hook.called /\ apps[a].deployment_status = "suspended"
          /\ \E i \in DOMAIN hook.rows :
                /\ hook.rows[i].app_id \in hook.failed \cup {0}
                /\ \/ hook.rows[i].log_type = "error"
                   \/ hook.rows[i].detail \in {"error", "gone"}

\* C17: after a subscription-deleted or payment-failed event of user U,
\* suspendApp was called for every app of U that had a live deployment, and
\* payment-failed left the subscription past_due
C17_SuspendsEveryLiveApp ==
    Processed({SubscriptionDeleted, PaymentFailed})
       => /\ \A a \in DOMAIN hook.pre.apps :
                (/\ hook.pre.apps[a].user_id = hook.userId
                 /\ LiveDeployment(a, hook.pre.deployments))
                   => a \in hook.called
          /\ hook.type = PaymentFailed
                => subscriptions[hook.subscription] = "past_due"

\* C18: a payment-succeeded event of user U calls reactivateApp for exactly
\* the apps of U that were suspended when it selected them, whatever each
\* call did, and inserts one summary row
C18_ReactivatesSuspended ==
    Processed({PaymentSucceeded})
       => /\ hook.called = {a \in DOMAIN hook.pre.apps :
                               /\ hook.pre.apps[a].user_id = hook.userId
                               /\ hook.pre.apps[a].deployment_status = "suspended"}
          /\ Cardinality({i \in DOMAIN hook.rows : hook.rows[i].app_id = 0}) = 1
          /\ hook.rows[Len(hook.rows)] = SummaryLog

\* two suspended apps were called although a reactivation failed
C18_Witness ==
    /\ Processed({PaymentSucceeded})
    /\ Cardinality(hook.called) = 2
    /\ hook.failed # {}

\* the archive a call can rely on when it publishes: the repository it
\* created itself, or the one recorded in the row it read
ArchiveOf(p) ==
    IF proc[p].op = "deploy" THEN proc[p].repo ELSE proc[p].app.github_repo_name

\* C21: whenever deployApp, updateApp, rollbackApp or reactivateApp has sent
\* a publish request, the app had an archive and the published code is one of
\* the snapshots written to it
C21_NoPublishWithoutBackup ==
    \A p \in Procs :
        proc[p].published
        => /\ ArchiveOf(p) \in DOMAIN repos
           /\ \E s \in repos[ArchiveOf(p)].snapshots :
                 PrepareFilesForBackup(proc[p].code, FALSE) \subseteq s.files

\* C22: in updateApp the version row is inserted after a successful archive
\* update and before the publish. A failed archive update adds no row; after
\* a failed publish the inserted row is still there, the earlier rows are
\* unchanged, current_version is the old one and the status is 'failed'
C22_InsertBetweenArchiveAndPublish ==
    \A p \in Procs :
        (proc[p].op = "update" /\ FoundAtStart(p))
        => LET a == proc[p].appId
               added == Len(app_versions) - Len(proc[p].pre.versions)
           IN  /\ HistoryKept(p)
               /\ proc[p].backup = "failed" => added = 0
               /\ added > 0 => proc[p].backup = "ok"
               /\ proc[p].published
                     => /\ added = 1
                        /\ app_versions[Len(app_versions)].app_id = a
                        /\ Parse(app_versions[Len(app_versions)].code) = proc[p].newCode
               /\ (proc[p].pc = "done" /\ proc[p].published /\ ~proc[p].ret.success)
                     => /\ apps[a].current_version = proc[p].pre.apps[a].current_version
                        /\ apps[a].deployment_status = "failed"

\* an updateApp failed at its publish step after it inserted its row
C22_Witness ==
    \E p \in Procs :
        /\ Done(p, "update")
        /\ proc[p].published
        /\ ~proc[p].ret.success
        /\ Len(app_versions) = Len(proc[p].pre.versions) + 1

\* what the claims about deliveries compare of a row
Outcome(row) == <<row.deployment_status, row.suspended_at = "NULL">>

\* the same event was delivered twice and both handlers have ended
PairFinished ==
    /\ hook.pc = "finished" /\ other.pc = "finished"
    /\ hook.valid
    /\ other.type = hook.type

\* C23: after the two handlers of a duplicated subscription-deleted,
\* payment-failed or payment-succeeded event, one after the other or
\* interleaved, every app is as one handling leaves it: for the suspending
\* events suspended if it was selected and untouched if not; for
\* payment-succeeded deployed with suspended_at NULL if a reactivation went
\* through and untouched if none did
C23_DuplicateConverges ==
    PairFinished
    => \A a \in DOMAIN hook.start :
          LET row == hook.start[a]
              known == \E h \in {hook, other} : h.processed /\ h.userId = row.user_id
              reactivated == (hook.called \ hook.failed) \cup (other.called \ other.failed)
          IN  IF hook.type \in {SubscriptionDeleted, PaymentFailed}
              THEN Outcome(apps[a]) = IF known /\ row.deployed
                                      THEN <<"suspended", FALSE>>
                                      ELSE Outcome(row)
              ELSE /\ a \in reactivated => Outcome(apps[a]) = <<"deployed", TRUE>>
                   /\ a \notin reactivated => Outcome(apps[a]) = Outcome(row)
                   /\ a \in hook.called \cup other.called
                         => known /\ row.deployment_status = "suspended"

\* both handlers of a duplicated event called the same app
C23_Witness ==
    /\ PairFinished
    /\ hook.called \cap other.called # {}
    /\ hook.failed = {} /\ other.failed = {}

\* a call on an app that was 'failed' when the call started, whose archive
\* step (if it has one) and publish step both succeeded
RecoveringCall(p, op) ==
    /\ Done(p, op)
    /\ FoundAtStart(p)
    /\ proc[p].pre.apps[proc[p].appId].deployment_status = "failed"
    /\ op # "reactivate" => proc[p].backup = "ok"
    /\ proc[p].published /\ DeploySuccess(proc[p].wait)

\* C24: a deployApp, updateApp or reactivateApp that starts on a 'failed' app
\* and whose archive and publish steps succeed ends with the app 'deployed'
C24_FailedRecoverable ==
    \A p \in Procs : \A op \in {"deploy", "update", "reactivate"} :
        RecoveringCall(p, op)
        => /\ apps[proc[p].appId].deployment_status = "deployed"
           /\ proc[p].ret.success

\* an updateApp brought a 'failed' app back to 'deployed'
C24_Witness ==
    \E p \in Procs :
        /\ RecoveringCall(p, "update")
        /\ apps[proc[p].appId].deployment_status = "deployed"

\* C25: once a suspendApp whose teardown succeeded has returned, with no
\* other call in flight, no deployment ever created for the app is live
C25_SuspendTearsDownAll ==
    \A p \in Procs :
        (/\ Done(p, "suspend")
         /\ proc[p].teardown = "ok"
         /\ InFlight = {p})
        => ~LiveDeployment(proc[p].appId, deployments)

\* the deployment recorded in the row of app a is up
RecordedLive(a) ==
    /\ apps[a].vercel_deployment_id \in DOMAIN deployments
    /\ deployments[apps[a].vercel_deployment_id].live

\* C26: when a suspendApp that tore down the deployment it found and a
\* reactivateApp or updateApp on the same app have both completed, the app
\* is not 'suspended' with its recorded deployment live
C26_NoSuspendedButLive ==
    \A p, q \in Procs :
        (/\ Done(p, "suspend") /\ proc[p].teardown = "ok"
         /\ Done(q, "reactivate") \/ Done(q, "update")
         /\ proc[q].appId = proc[p].appId
         /\ InFlight = {p, q})
        => ~(/\ apps[proc[p].appId].deployment_status = "suspended"
             /\ RecordedLive(proc[p].appId))

\* C27: while the subscription is canceled or past due, an app that the last
\* subscription-deleted or payment-failed event suspended is not 'deployed':
\* the requests of its owner to the deploy routes do not bring it back
C27_OnlyPaymentReactivates ==
    (/\ hook.pc = "finished"
     /\ hook.type \in {SubscriptionDeleted, PaymentFailed}
     /\ hook.userId # NoUser
     /\ subscriptions[hook.subscription] \in {"canceled", "past_due"})
    => \A a \in hook.called : apps[a].deployment_status # "deployed"

\* C28: with no orchestrator call in flight, suspended_at is set exactly for
\* the apps whose deployment_status is 'suspended'
C28_SuspendedAtIffSuspended ==
    (\A p \in Procs : proc[p].pc \in {"idle", "done"})
    => \A a \in DOMAIN apps :
          apps[a].suspended_at # "NULL" <=> apps[a].deployment_status = "suspended"

Transient == {"deploying", "updating", "rolling_back"}

Marking == {"deploy", "update", "rollback"}

\* no deployApp, updateApp or rollbackApp call is in flight for app a
Settled(a) ==
    \A p \in Procs :
        (proc[p].op \in Marking /\ proc[p].appId = a) => proc[p].pc \in {"idle", "done"}

\* the step in which call p returns leaves the row 'deployed' or 'failed'
EndsWritten(p) ==
    (/\ proc[p].pc \notin {"idle", "done"}
     /\ proc'[p].pc = "done"
     /\ proc[p].op \in Marking
     /\ proc[p].appId \in DOMAIN apps)
    => apps'[proc[p].appId].deployment_status \in {"deployed", "failed"}

\* C29: an app with no deployApp, updateApp or rollbackApp call in flight is
\* not 'deploying', 'updating' or 'rolling_back', and each such call returns
\* in a step that writes 'deployed' or 'failed', overlapping calls included
C29_NoTransientLeft ==
    /\ [](\A a \in DOMAIN apps :
             Settled(a) => apps[a].deployment_status \notin Transient)
    /\ [][\A p \in Procs : EndsWritten(p)]_vars

\* two calls on the same app, the second started while the first had the app
\* in a transient status, have both returned
C29_Witness ==
    \E p, q \in Procs :
        /\ p # q
        /\ proc[p].pc = "done" /\ proc[q].pc = "done"
        /\ proc[p].op \in Marking /\ proc[q].op \in Marking
        /\ proc[p].appId = proc[q].appId
        /\ FoundAtStart(q)
        /\ proc[q].pre.apps[proc[q].appId].deployment_status \in Transient

\* C30: the handler of a job succeeds at most once, the job is attempted at
\* most maxRetries times, and no attempt starts once its row is 'completed'
\* or 'failed'
C30_JobRunsOnce ==
    /\ jobs.successes <= 1
    /\ jobs.runs <= MAX_RETRIES
    /\ jobs.late = 0

====
